---- MODULE Spec2Model ----
(***************************************************************************)
(* The durable agent loop of codeAgentFunction (src/unnamed/part_000).     *)
(*                                                                         *)
(* A run resolves a sandbox ("get-sandbox-id"), runs the agent network     *)
(* (router, agent turns, the three tools, the onResponse hook), validates  *)
(* the terminal state (isError), resolves the sandbox URL and persists one *)
(* message ("save-result"). Every sandbox and persistence operation is     *)
(* wrapped in step.run(<name>, operation). The step executor and the       *)
(* network loop are library code: they are modelled from sections 4.1 and  *)
(* 4.5 of the specification (a StepRecord keyed by run identity and step   *)
(* name; a loop of turns, each followed by the detector and the router).   *)
(*                                                                         *)
(* Strings are sequences of tokens, so that a template literal is a        *)
(* concatenation and String.includes a search. A JavaScript value is a     *)
(* record [t, s, m]: its typeof, its text and its path -> content mapping. *)
(***************************************************************************)
EXTENDS Integers, Sequences, FiniteSets, TLC

\* ------------------------------------------------------------------ bounds
MaxBatch == 2       \* entries in one createOrUpdateFiles batch
MaxRead == 2        \* paths in one readFiles request
MaxCrashes == 1     \* restarts of one run
MaxCalls == 2       \* tool invocations the agent makes for one run
MaxActiveTurns == 2 \* leading turns in which the agent invokes tools or ends with a marker

\* --------------------------------------------------------------- constants
maxIterOffByOne == 15 + 1
maxIter == 15       \* createNetwork({ maxIter: 15 })
Port == 3000        \* sandbox.getHost(3000)

Runs == {"run1", "run2"}
Paths == {"app/page.tsx", "lib/utils.ts"}
Contents == {"v1", "v2"}
TemplateContent == "tpl"
Absent == "<absent>"
Commands == {"npm install", "nosuchbinary"}

StepNames ==
  {"get-sandbox-id", "terminal", "createOrUpdateFiles", "readFiles",
   "get-sandbox-url", "save-result"}

\* ------------------------------------------------------------------ values
NoFiles == [p \in Paths |-> Absent]

Undefined == [t |-> "undefined", s |-> <<>>, m |-> NoFiles]
Str(s) == [t |-> "string", s |-> s, m |-> NoFiles]
Obj(m) == [t |-> "object", s |-> <<>>, m |-> m]
\* A failed operation as the executor records it (section 4.1).
Failure(e) == [t |-> "failure", s |-> <<e>>, m |-> NoFiles]
\* No StepRecord for the step name.
NoRecord == [t |-> "norecord", s |-> <<>>, m |-> NoFiles]

TypeOf(v) == v.t
\* JavaScript truthiness of the values the program tests.
Truthy(v) ==
  \/ v.t = "object"
  \/ v.t = "string" /\ v.s # <<>>
\* Object.keys(m)
Keys(m) == {p \in Paths : m[p] # Absent}

\* text.includes(token)
Includes(text, token) == \E i \in 1..Len(text) : text[i] = token
\* whether part occurs in text as a contiguous run of tokens
Contains(text, part) ==
  \E i \in 0..(Len(text) - Len(part)) :
    \A j \in 1..Len(part) : text[i + j] = part[j]

Marker == "<task_summary>"
\* The final assistant texts a turn can end with; NoText is a turn whose
\* response holds no text message.
NoText == Undefined
Texts ==
  { Str(<<"working">>),
    Str(<<Marker, "summary A", "</task_summary>">>),
    Str(<<"all done", Marker, "summary B", "</task_summary>">>) }

VARIABLES
  pc,         \* where each run's function is
  steps,      \* the StepRecords: run -> step name -> recorded result
  invoked,    \* run -> step name -> times the operation itself was invoked
  sandboxId,  \* const sandboxId
  files,      \* network.state.data.files
  summary,    \* network.state.data.summary
  iter,       \* the network's turn counter
  lastCall,   \* the tool invocation handled last in the current turn
  sbExists,   \* run -> number of sandboxes created for it
  sbFiles,    \* run -> the file system of its sandbox
  isError,    \* const isError
  sandboxUrl, \* const sandboxUrl
  messages,   \* run -> messages persisted through prisma.message.create
  returned,   \* run -> the function's return value
  crashes,    \* run -> times the run crashed and was restarted
  calls       \* run -> tool invocations the agent has made for the run

vars ==
  <<pc, steps, invoked, sandboxId, files, summary, iter, lastCall, sbExists,
    sbFiles, isError, sandboxUrl, messages, returned, crashes, calls>>

\* The record of one tool invocation: its arguments, whether the operation
\* itself ran (or a StepRecord was replayed), how the operation ended and the
\* value the handler returned to the agent.
NoCall ==
  [tool |-> "none", command |-> "", batch |-> <<>>, paths |-> <<>>,
   executed |-> FALSE, errored |-> FALSE, error |-> "", stdout |-> <<>>,
   stderr |-> <<>>, ret |-> Undefined, malformed |-> FALSE]

NoReturn == [url |-> Undefined, files |-> Undefined, summary |-> Undefined]

TemplateFiles == [p \in Paths |-> IF p = "lib/utils.ts" THEN TemplateContent ELSE Absent]

Init ==
  /\ pc = [r \in Runs |-> "idle"]
  /\ steps = [r \in Runs |-> [n \in StepNames |-> NoRecord]]
  /\ invoked = [r \in Runs |-> [n \in StepNames |-> 0]]
  /\ sandboxId = [r \in Runs |-> Undefined]
  /\ files = [r \in Runs |-> Undefined]
  /\ summary = [r \in Runs |-> Undefined]
  /\ iter = [r \in Runs |-> 0]
  /\ lastCall = [r \in Runs |-> NoCall]
  /\ sbExists = [r \in Runs |-> 0]
  /\ sbFiles = [r \in Runs |-> NoFiles]
  /\ isError = [r \in Runs |-> FALSE]
  /\ sandboxUrl = [r \in Runs |-> Undefined]
  /\ messages = [r \in Runs |-> <<>>]
  /\ returned = [r \in Runs |-> NoReturn]
  /\ crashes = [r \in Runs |-> 0]
  /\ calls = [r \in Runs |-> 0]

\* ------------------------------------------------- Durable Step Executor
\* execute(runIdentity, stepName, operation), section 4.1: a StepRecord for
\* (run, name) is returned as it is and the operation is not invoked;
\* otherwise the operation is invoked once and its result, a failure
\* included, is recorded and returned.
Memoized(r, name) == steps[r][name] # NoRecord

StepResult(r, name, res) == IF Memoized(r, name) THEN steps[r][name] ELSE res

\* viaStep = FALSE is an operation called without step.run: it runs on every
\* call and leaves no StepRecord.
Runs_op(r, name, viaStep) == ~viaStep \/ ~Memoized(r, name)

Execute(r, name, res, viaStep) ==
  /\ steps' =
       IF viaStep /\ ~Memoized(r, name)
       THEN [steps EXCEPT ![r][name] = res]
       ELSE steps
  /\ invoked' =
       IF Runs_op(r, name, viaStep)
       THEN [invoked EXCEPT ![r][name] = @ + 1]
       ELSE invoked

Returned(r, name, res, viaStep) ==
  IF viaStep THEN StepResult(r, name, res) ELSE res

\* -------------------------------------------------------- Sandbox Session
\* getSandbox(sandboxId): connects to the sandbox of that id; it throws when
\* the id names no sandbox and may throw on any call.
CanConnect(r) == TypeOf(sandboxId[r]) = "string" /\ sbExists[r] > 0

\* An id that does not depend on the run.
SandboxIdShared(r, n) == Str(<<"sbx", ToString(n)>>)

\* sandbox.sandboxId: Sandbox.create returns a sandbox of its own on each call.
SandboxIdOf(r, n) == Str(<<"sbx", r, ToString(n)>>)

\* Step 1: step.run("get-sandbox-id", () => Sandbox.create(...).sandboxId)
getSandboxIdHandler(r, viaStep) ==
  /\ pc[r] = "start"
  /\ \E created \in BOOLEAN :
       LET runs == Runs_op(r, "get-sandbox-id", viaStep)
           res == IF created
                  THEN SandboxIdOf(r, sbExists[r] + 1)
                  ELSE Failure("SandboxError")
       IN /\ Execute(r, "get-sandbox-id", res, viaStep)
          /\ sandboxId' =
               [sandboxId EXCEPT ![r] = Returned(r, "get-sandbox-id", res, viaStep)]
          /\ sbExists' =
               IF runs /\ created THEN [sbExists EXCEPT ![r] = @ + 1] ELSE sbExists
          /\ sbFiles' =
               IF runs /\ created THEN [sbFiles EXCEPT ![r] = TemplateFiles] ELSE sbFiles
  /\ pc' = [pc EXCEPT ![r] = "route"]
  /\ UNCHANGED <<files, summary, iter, lastCall, isError, sandboxUrl,
                 messages, returned, crashes, calls>>

\* Sandbox.create called without step.run.
getSandboxIdDirect(r) == getSandboxIdHandler(r, FALSE)

getSandboxId(r) == getSandboxIdHandler(r, TRUE)

\* The inbound event "code-agent/run" starts the function.
Trigger(r) ==
  /\ pc[r] = "idle"
  /\ pc' = [pc EXCEPT ![r] = "start"]
  /\ UNCHANGED <<steps, invoked, sandboxId, files, summary, iter, lastCall,
                 sbExists, sbFiles, isError, sandboxUrl, messages,
                 returned, crashes, calls>>

\* ------------------------------------------------------ Tool Dispatch Layer
\* The agent's tool invocations are bounded in number and fall in its first
\* turns.
CanCall(r) == calls[r] < MaxCalls /\ iter[r] < MaxActiveTurns

\* The record of a tool invocation whose StepRecord was replayed.
Replayed(call, name, r) ==
  [call EXCEPT !.executed = FALSE, !.ret = steps[r][name]]

\* What the sandbox streamed through onStdout / onStderr before the command
\* ended, and how it ended: the sandbox could not be reached, the command
\* exited normally, or commands.run threw.
Stdouts == {<<>>, <<"out">>}
Stderrs == {<<>>, <<"err">>}
CommandOutcomes ==
  {o \in [connected : BOOLEAN, exited : BOOLEAN, stdout : Stdouts, stderr : Stderrs] :
     /\ ~o.connected => (~o.exited /\ o.stdout = <<>> /\ o.stderr = <<>>)
     /\ o.exited => (o.stdout # <<>> /\ o.stderr = <<>>)
     /\ (o.connected /\ ~o.exited) => o.stderr # <<>>}

\* The failure text without the buffers.
CommandFailedBare(error, stdout, stderr) == <<"Command failed: ", error>>

\* `Command failed: ${error} \nstdout: ${buffers.stdout} \nstderr: ${buffers.stderr}`
CommandFailed(error, stdout, stderr) ==
  <<"Command failed: ", error, " \nstdout: ">> \o stdout \o <<" \nstderr: ">> \o stderr

\* The error the catch block of the terminal operation receives.
CommandError(o) ==
  IF ~o.connected THEN "SandboxError"
  ELSE IF ~o.exited THEN "CommandExitError"
  ELSE ""

\* The operation of the terminal tool: try { getSandbox; commands.run;
\* return result.stdout } catch { return the formatted failure }.
terminalOperation(o) ==
  IF o.connected /\ o.exited THEN Str(o.stdout)
  ELSE Str(CommandFailed(CommandError(o), o.stdout, o.stderr))

terminalHandler(r, viaStep) ==
  /\ pc[r] = "turn"
  /\ CanCall(r)
  /\ calls' = [calls EXCEPT ![r] = @ + 1]
  /\ \E command \in Commands :
       LET call == [NoCall EXCEPT !.tool = "terminal", !.command = command] IN
       IF Runs_op(r, "terminal", viaStep)
       THEN \E o \in CommandOutcomes :
              LET res == terminalOperation(o) IN
              /\ o.connected => CanConnect(r)
              /\ Execute(r, "terminal", res, viaStep)
              /\ lastCall' =
                   [lastCall EXCEPT ![r] =
                      [call EXCEPT
                         !.executed = TRUE,
                         !.errored = CommandError(o) # "",
                         !.error = CommandError(o),
                         !.stdout = o.stdout,
                         !.stderr = o.stderr,
                         !.ret = res]]
       ELSE /\ lastCall' = [lastCall EXCEPT ![r] = Replayed(call, "terminal", r)]
            /\ UNCHANGED <<steps, invoked>>
  /\ UNCHANGED <<pc, sandboxId, files, summary, iter, sbExists, sbFiles,
                 isError, sandboxUrl, messages, returned, crashes>>

\* The terminal operation called without step.run.
terminalDirect(r) == terminalHandler(r, FALSE)

terminal(r) == terminalHandler(r, TRUE)

FileEntries == [path : Paths, content : Contents]
SeqsUpTo(S, n) == UNION {[1..k -> S] : k \in 0..n}
Batches == SeqsUpTo(FileEntries, MaxBatch)
PathLists == SeqsUpTo(Paths, MaxRead)

\* for (const file of files) { ...; updatedFiles[file.path] = file.content }
\* over the first n entries of the batch.
RECURSIVE WriteLoop(_, _, _)
WriteLoop(m, batch, n) ==
  IF n = 0 THEN m
  ELSE [WriteLoop(m, batch, n - 1) EXCEPT ![batch[n].path] = batch[n].content]

\* Entries written before the batch ended: all of them when no write throws
\* (failAt = 0), those before the throwing one otherwise.
Written(batch, failAt) == IF failAt = 0 THEN Len(batch) ELSE failAt - 1

\* const updatedFiles = network.state.data.files || {}
updatedFilesOf(cur) == IF Truthy(cur) THEN cur.m ELSE NoFiles

\* The error the catch block of the createOrUpdateFiles operation receives.
WriteError(connected, failAt) ==
  IF ~connected THEN "SandboxError"
  ELSE IF failAt # 0 THEN "WriteError"
  ELSE ""

\* The operation of createOrUpdateFiles: the mapping it returns, or
\* `Error: ${error}` from the catch.
createOrUpdateFilesOperation(cur, connected, batch, failAt) ==
  IF WriteError(connected, failAt) # ""
  THEN Str(<<"Error: ", WriteError(connected, failAt)>>)
  ELSE Obj(WriteLoop(updatedFilesOf(cur), batch, Len(batch)))

\* network.state.data.files once the operation has run: updatedFiles is the
\* state's own object when the state holds one, so its entries are assigned
\* in place, whether or not a later write throws.
filesAfterOperation(cur, connected, batch, failAt) ==
  IF connected /\ Truthy(cur)
  THEN Obj(WriteLoop(cur.m, batch, Written(batch, failAt)))
  ELSE cur

\* The assignment without its typeof guard.
assignUnguarded(cur, newFiles) == newFiles

\* if (typeof newFiles === "object") network.state.data.files = newFiles
assignNewFiles(cur, newFiles) ==
  IF TypeOf(newFiles) = "object" THEN newFiles ELSE cur

createOrUpdateFilesHandler(r, viaStep) ==
  /\ pc[r] = "turn"
  /\ CanCall(r)
  /\ calls' = [calls EXCEPT ![r] = @ + 1]
  /\ \E batch \in Batches :
       LET call == [NoCall EXCEPT !.tool = "createOrUpdateFiles", !.batch = batch] IN
       IF Runs_op(r, "createOrUpdateFiles", viaStep)
       THEN \E connected \in BOOLEAN :
            \E failAt \in 0..Len(batch) :
              LET res == createOrUpdateFilesOperation(files[r], connected, batch, failAt)
                  cur == filesAfterOperation(files[r], connected, batch, failAt)
              IN /\ connected => CanConnect(r)
                 /\ ~connected => failAt = 0
                 /\ Execute(r, "createOrUpdateFiles", res, viaStep)
                 /\ sbFiles' =
                      IF connected
                      THEN [sbFiles EXCEPT
                              ![r] = WriteLoop(@, batch, Written(batch, failAt))]
                      ELSE sbFiles
                 /\ files' = [files EXCEPT ![r] = assignNewFiles(cur, res)]
                 /\ lastCall' =
                      [lastCall EXCEPT ![r] =
                         [call EXCEPT
                            !.executed = TRUE,
                            !.errored = WriteError(connected, failAt) # "",
                            !.error = WriteError(connected, failAt)]]
       ELSE /\ files' =
                 [files EXCEPT
                    ![r] = assignNewFiles(@, steps[r]["createOrUpdateFiles"])]
            /\ lastCall' = [lastCall EXCEPT ![r] = [call EXCEPT !.executed = FALSE]]
            /\ UNCHANGED <<steps, invoked, sbFiles>>
  /\ UNCHANGED <<pc, sandboxId, summary, iter, sbExists, isError,
                 sandboxUrl, messages, returned, crashes>>

createOrUpdateFiles(r) == createOrUpdateFilesHandler(r, TRUE)

\* JSON.stringify(contents) of the {path, content} entries collected for the
\* first n paths.
RECURSIVE Entries(_, _, _)
Entries(fs, paths, n) ==
  IF n = 0 THEN <<>>
  ELSE Entries(fs, paths, n - 1)
         \o <<"{path:", paths[n], "content:", fs[paths[n]], "}">>

Stringify(fs, paths, n) == <<"[">> \o Entries(fs, paths, n) \o <<"]">>

\* sandbox.files.read(file) throws for a path the sandbox does not hold.
ReadFails(fs, p) == fs[p] = Absent

\* The error the catch block of the readFiles operation receives.
ReadError(fs, connected, paths) ==
  IF ~connected THEN "SandboxError"
  ELSE IF \E i \in 1..Len(paths) : ReadFails(fs, paths[i]) THEN "NotFoundError"
  ELSE ""

\* The operation of readFiles.
readFilesOperation(fs, connected, paths) ==
  IF ReadError(fs, connected, paths) # ""
  THEN Str(<<"Error: ", ReadError(fs, connected, paths)>>)
  ELSE Str(Stringify(fs, paths, Len(paths)))

readFilesHandler(r, viaStep) ==
  /\ pc[r] = "turn"
  /\ CanCall(r)
  /\ calls' = [calls EXCEPT ![r] = @ + 1]
  /\ \E paths \in PathLists :
       LET call == [NoCall EXCEPT !.tool = "readFiles", !.paths = paths] IN
       IF Runs_op(r, "readFiles", viaStep)
       THEN \E connected \in BOOLEAN :
              LET res == readFilesOperation(sbFiles[r], connected, paths) IN
              /\ connected => CanConnect(r)
              /\ Execute(r, "readFiles", res, viaStep)
              /\ lastCall' =
                   [lastCall EXCEPT ![r] =
                      [call EXCEPT
                         !.executed = TRUE,
                         !.errored = ReadError(sbFiles[r], connected, paths) # "",
                         !.error = ReadError(sbFiles[r], connected, paths),
                         !.ret = res]]
       ELSE /\ lastCall' = [lastCall EXCEPT ![r] = Replayed(call, "readFiles", r)]
            /\ UNCHANGED <<steps, invoked>>
  /\ UNCHANGED <<pc, sandboxId, files, summary, iter, sbExists, sbFiles, isError, sandboxUrl, messages, returned, crashes>>

\* A readFiles handler that also stores what the sandbox holds as the state's
\* files.
readFilesIntoState(r) ==
  /\ pc[r] = "turn"
  /\ CanCall(r)
  /\ calls' = [calls EXCEPT ![r] = @ + 1]
  /\ \E paths \in PathLists :
       LET call == [NoCall EXCEPT !.tool = "readFiles", !.paths = paths] IN
       IF Runs_op(r, "readFiles", TRUE)
       THEN \E connected \in BOOLEAN :
              LET res == readFilesOperation(sbFiles[r], connected, paths) IN
              /\ connected => CanConnect(r)
              /\ Execute(r, "readFiles", res, TRUE)
              /\ lastCall' =
                   [lastCall EXCEPT ![r] =
                      [call EXCEPT
                         !.executed = TRUE,
                         !.errored = ReadError(sbFiles[r], connected, paths) # "",
                         !.error = ReadError(sbFiles[r], connected, paths),
                         !.ret = res]]
       ELSE /\ lastCall' = [lastCall EXCEPT ![r] = Replayed(call, "readFiles", r)]
            /\ UNCHANGED <<steps, invoked>>
  /\ files' = [files EXCEPT ![r] = Obj(sbFiles[r])]
  /\ UNCHANGED <<pc, sandboxId, summary, iter, sbExists, sbFiles, isError,
                 sandboxUrl, messages, returned, crashes>>

readFiles(r) == readFilesHandler(r, TRUE)

\* ------------------------------------------------------ schema validation
\* Invocations whose arguments do not have the shape of the tool's
\* parameters, each field given by its JavaScript type: a command that is a
\* number, a file entry without content, a files argument that is one string.
Malformed ==
  { [tool |-> "terminal", command |-> "number", files |-> "undefined",
     path |-> "undefined", content |-> "undefined"],
    [tool |-> "createOrUpdateFiles", command |-> "undefined", files |-> "array",
     path |-> "string", content |-> "undefined"],
    [tool |-> "readFiles", command |-> "undefined", files |-> "string",
     path |-> "undefined", content |-> "undefined"] }

\* Parameters declared as z.any().
SchemaAny(inv) == TRUE

\* The parameters of the three tools: z.object({ command: z.string() }),
\* z.object({ files: z.array(z.object({ path: z.string(), content:
\* z.string() })) }) and z.object({ files: z.array(z.string()) }).
Schema(inv) ==
  CASE inv.tool = "terminal" -> inv.command = "string"
    [] inv.tool = "createOrUpdateFiles" ->
         inv.files = "array" /\ inv.path = "string" /\ inv.content = "string"
    [] inv.tool = "readFiles" -> inv.files = "array" /\ inv.path = "string"

SchemaViolation(inv) == Str(<<"Error: ", "SchemaViolation", inv.tool>>)

\* The agent sends an invocation of a malformed shape (section 4.3): one the
\* schema does not accept is answered with a schema-violation error and no
\* handler is called; one the schema lets through reaches the tool's handler,
\* whose step runs with the arguments as they are and records the error its
\* catch block returns.
malformedInvocation(r) ==
  /\ pc[r] = "turn"
  /\ CanCall(r)
  /\ calls' = [calls EXCEPT ![r] = @ + 1]
  /\ \E inv \in Malformed :
       IF Schema(inv)
       THEN /\ Execute(r, inv.tool, Str(<<"Error: ", "TypeError">>), TRUE)
            /\ lastCall' =
                 [lastCall EXCEPT ![r] =
                    [NoCall EXCEPT
                       !.tool = inv.tool,
                       !.executed = Runs_op(r, inv.tool, TRUE),
                       !.malformed = TRUE,
                       !.ret = StepResult(r, inv.tool, Str(<<"Error: ", "TypeError">>))]]
       ELSE /\ lastCall' =
                 [lastCall EXCEPT ![r] =
                    [NoCall EXCEPT
                       !.tool = "rejected",
                       !.errored = TRUE,
                       !.error = "SchemaViolation",
                       !.malformed = TRUE,
                       !.ret = SchemaViolation(inv)]]
            /\ UNCHANGED <<steps, invoked>>
  /\ UNCHANGED <<pc, sandboxId, files, summary, iter, sbExists, sbFiles,
                 isError, sandboxUrl, messages, returned, crashes>>

\* ------------------------------------------- Completion Detector and Router
\* lifecycle.onResponse: the summary the hook leaves for the turn's last
\* assistant text (undefined when the response holds no text).
onResponse(cur, text) ==
  IF Truthy(text) /\ Includes(text.s, Marker) THEN text ELSE cur

\* A router that never looks at the summary.
routerAlwaysAgent(sum) == "codeAgent"

\* router: undefined (stop) once the summary is set, codeAgent otherwise.
router(sum) == IF Truthy(sum) THEN "stop" ELSE "codeAgent"

\* The network's loop, section 4.5: it runs the routed agent while the turn
\* count is below maxIter.
Continues(r) == router(summary[r]) = "codeAgent" /\ iter[r] < maxIter

\* The validation without its files test.
IsErrorSummaryOnly(sum, fs) == ~Truthy(sum)

\* const isError = !summary || Object.keys(files || {}).length === 0
IsError(sum, fs) == ~Truthy(sum) \/ Cardinality(Keys(updatedFilesOf(fs))) = 0

\* The router sends the next turn to codeAgent.
RouteAgent(r) ==
  /\ pc[r] = "route"
  /\ Continues(r)
  /\ pc' = [pc EXCEPT ![r] = "turn"]
  /\ UNCHANGED <<steps, invoked, sandboxId, files, summary, iter, lastCall,
                 sbExists, sbFiles, isError, sandboxUrl, messages,
                 returned, crashes, calls>>

\* The loop ends: network.run returns and isError is computed (step 5).
RouteStop(r) ==
  /\ pc[r] = "route"
  /\ ~Continues(r)
  /\ pc' = [pc EXCEPT ![r] = "stopped"]
  /\ isError' = [isError EXCEPT ![r] = IsError(summary[r], files[r])]
  /\ UNCHANGED <<steps, invoked, sandboxId, files, summary, iter, lastCall,
                 sbExists, sbFiles, sandboxUrl, messages, returned,
                 crashes, calls>>

\* The agent's response ends the turn: the detector runs on its final text,
\* the turn is counted and the router decides next.
Respond(r) ==
  /\ pc[r] = "turn"
  /\ \E text \in Texts \cup {NoText} :
       /\ Includes(text.s, Marker) => iter[r] < MaxActiveTurns
       /\ summary' = [summary EXCEPT ![r] = onResponse(@, text)]
  /\ iter' = [iter EXCEPT ![r] = @ + 1]
  /\ lastCall' = [lastCall EXCEPT ![r] = NoCall]
  /\ pc' = [pc EXCEPT ![r] = "route"]
  /\ UNCHANGED <<steps, invoked, sandboxId, files, sbExists, sbFiles, isError, sandboxUrl, messages, returned, crashes, calls>>

\* ---------------------------------------------------------- Result Finalizer
\* `https://${sandbox.getHost(3000)}`
UrlOf(id) == Str(<<"https://", ToString(Port), "-">> \o id.s)

\* Step 6: step.run("get-sandbox-url", ...)
getSandboxUrlHandler(r, viaStep) ==
  /\ pc[r] = "stopped"
  /\ \E connected \in BOOLEAN :
       LET res == IF connected THEN UrlOf(sandboxId[r]) ELSE Failure("SandboxError")
       IN /\ connected => CanConnect(r)
          /\ Execute(r, "get-sandbox-url", res, viaStep)
          /\ sandboxUrl' =
               [sandboxUrl EXCEPT ![r] = Returned(r, "get-sandbox-url", res, viaStep)]
  /\ pc' = [pc EXCEPT ![r] = "save"]
  /\ UNCHANGED <<sandboxId, files, summary, iter, lastCall, sbExists, sbFiles,
                 isError, messages, returned, crashes, calls>>

\* getHost called without step.run.
getSandboxUrlDirect(r) == getSandboxUrlHandler(r, FALSE)

getSandboxUrl(r) == getSandboxUrlHandler(r, TRUE)

NoFragment == [present |-> FALSE, sandboxUrl |-> Undefined, files |-> Undefined, title |-> ""]

ErrorMessage ==
  [content |-> Str(<<"Something went wrong. Please try again.">>),
   role |-> "ASSISTANT", type |-> "ERROR", fragment |-> NoFragment]

\* The RESULT data without the files of its fragment.
ResultMessageNoFiles(sum, url, fs) ==
  [content |-> sum, role |-> "ASSISTANT", type |-> "RESULT",
   fragment |-> [present |-> TRUE, sandboxUrl |-> url, files |-> Undefined,
                 title |-> "Fragment"]]

ResultMessage(sum, url, fs) ==
  [content |-> sum, role |-> "ASSISTANT", type |-> "RESULT",
   fragment |-> [present |-> TRUE, sandboxUrl |-> url, files |-> fs,
                 title |-> "Fragment"]]

\* The data without the isError branch.
messageDataResultOnly(err, sum, url, fs) == ResultMessage(sum, url, fs)

\* The data of the prisma.message.create call of step 7.
messageData(err, sum, url, fs) ==
  IF err THEN ErrorMessage ELSE ResultMessage(sum, url, fs)

\* Step 7: step.run("save-result", ...), then the function returns.
saveResultHandler(r, viaStep) ==
  /\ pc[r] = "save"
  /\ \E stored \in BOOLEAN :
       LET runs == Runs_op(r, "save-result", viaStep)
           data == messageData(isError[r], summary[r], sandboxUrl[r], files[r])
           res == IF stored THEN Str(<<"message", data.type>>) ELSE Failure("DbError")
       IN /\ Execute(r, "save-result", res, viaStep)
          /\ messages' =
               IF runs /\ stored
               THEN [messages EXCEPT ![r] = Append(@, data)]
               ELSE messages
  /\ returned' =
       [returned EXCEPT ![r] =
          [url |-> sandboxUrl[r], files |-> files[r], summary |-> summary[r]]]
  /\ pc' = [pc EXCEPT ![r] = "done"]
  /\ UNCHANGED <<sandboxId, files, summary, iter, lastCall, sbExists, sbFiles,
                 isError, sandboxUrl, crashes, calls>>

\* A save-result whose failure ends the function without a return value.
saveResultThrowing(r) ==
  /\ pc[r] = "save"
  /\ \E stored \in BOOLEAN :
       LET runs == Runs_op(r, "save-result", TRUE)
           data == messageData(isError[r], summary[r], sandboxUrl[r], files[r])
           res == IF stored THEN Str(<<"message", data.type>>) ELSE Failure("DbError")
       IN /\ Execute(r, "save-result", res, TRUE)
          /\ messages' =
               IF runs /\ stored
               THEN [messages EXCEPT ![r] = Append(@, data)]
               ELSE messages
          /\ returned' =
               IF TypeOf(StepResult(r, "save-result", res)) = "failure"
               THEN returned
               ELSE [returned EXCEPT ![r] =
                       [url |-> sandboxUrl[r], files |-> files[r],
                        summary |-> summary[r]]]
          /\ pc' =
               [pc EXCEPT ![r] =
                  IF TypeOf(StepResult(r, "save-result", res)) = "failure"
                  THEN "failed" ELSE "done"]
  /\ UNCHANGED <<sandboxId, files, summary, iter, lastCall, sbExists, sbFiles,
                 isError, sandboxUrl, crashes, calls>>

\* A save-result whose isError branch does not return: the failed run stores
\* the ERROR message and goes on to store the RESULT message as well.
saveResultFallThrough(r) ==
  /\ pc[r] = "save"
  /\ \E stored \in BOOLEAN :
       LET runs == Runs_op(r, "save-result", TRUE)
           data == ResultMessage(summary[r], sandboxUrl[r], files[r])
           res == IF stored THEN Str(<<"message", data.type>>) ELSE Failure("DbError")
       IN /\ Execute(r, "save-result", res, TRUE)
          /\ messages' =
               IF runs /\ stored
               THEN [messages EXCEPT
                       ![r] = IF isError[r]
                              THEN Append(Append(@, ErrorMessage), data)
                              ELSE Append(@, data)]
               ELSE messages
  /\ returned' =
       [returned EXCEPT ![r] =
          [url |-> sandboxUrl[r], files |-> files[r], summary |-> summary[r]]]
  /\ pc' = [pc EXCEPT ![r] = "done"]
  /\ UNCHANGED <<sandboxId, files, summary, iter, lastCall, sbExists, sbFiles,
                 isError, sandboxUrl, crashes, calls>>

saveResult(r) == saveResultHandler(r, TRUE)

\* ------------------------------------------------------------ crash, restart
\* The function's process is lost between two steps and the engine starts
\* the function again for the same run: the StepRecords, the sandbox and the
\* stored messages remain, everything the function held in memory is gone.
Crash(r) ==
  /\ pc[r] \notin {"idle", "done"}
  /\ crashes[r] < MaxCrashes
  /\ crashes' = [crashes EXCEPT ![r] = @ + 1]
  /\ pc' = [pc EXCEPT ![r] = "start"]
  /\ sandboxId' = [sandboxId EXCEPT ![r] = Undefined]
  /\ files' = [files EXCEPT ![r] = Undefined]
  /\ summary' = [summary EXCEPT ![r] = Undefined]
  /\ iter' = [iter EXCEPT ![r] = 0]
  /\ lastCall' = [lastCall EXCEPT ![r] = NoCall]
  /\ isError' = [isError EXCEPT ![r] = FALSE]
  /\ sandboxUrl' = [sandboxUrl EXCEPT ![r] = Undefined]
  /\ UNCHANGED <<steps, invoked, sbExists, sbFiles, messages, returned, calls>>

\* ------------------------------------------------------------ specifications
Step(r) ==
  \/ Trigger(r)
  \/ getSandboxId(r)
  \/ RouteAgent(r)
  \/ terminal(r)
  \/ createOrUpdateFiles(r)
  \/ readFiles(r)
  \/ malformedInvocation(r)
  \/ Respond(r)
  \/ RouteStop(r)
  \/ getSandboxUrl(r)
  \/ saveResult(r)

\* One run, from its event to its return value.
Next == Step("run1")

Spec == Init /\ [][Next]_vars

\* The function awaits each of its steps, and the sandbox, the model and the
\* store answer every request: a run that can take a step takes one.
SpecFair == Init /\ [][Next]_vars /\ WF_vars(Next)

\* One run that may crash and be restarted.
NextCrash == Step("run1") \/ Crash("run1")

SpecCrash == Init /\ [][NextCrash]_vars

\* Several runs of the function side by side, in any interleaving of their
\* steps; their agents call the terminal tool.
RunStep(r) ==
  \/ Trigger(r)
  \/ getSandboxId(r)
  \/ RouteAgent(r)
  \/ terminal(r)
  \/ Respond(r)
  \/ RouteStop(r)
  \/ getSandboxUrl(r)
  \/ saveResult(r)

NextRuns == \E r \in Runs : RunStep(r)

SpecRuns == Init /\ [][NextRuns]_vars

\* ===================================================================== claims
Stopped(r) == pc[r] \in {"stopped", "save", "done"}

\* A step of run r that handles an invocation of the tool.
CallOf(r, tool) == calls'[r] = calls[r] + 1 /\ lastCall'[r].tool = tool

\* C1 (idempotent replay): the operation of a step name is invoked at most
\* once in a run, a StepRecord never changes once it is stored, and the value
\* a terminal or readFiles invocation returns is the one recorded for its
\* step name, so a second invocation returns the first one's result.
C1_IdempotentReplay ==
  /\ [](\A r \in Runs : \A n \in StepNames :
          /\ invoked[r][n] <= 1
          /\ (steps[r][n] # NoRecord) = (invoked[r][n] = 1))
  /\ [](\A r \in Runs :
          lastCall[r].tool \in {"terminal", "readFiles"}
            => lastCall[r].ret = steps[r][lastCall[r].tool])
  /\ [][\A r \in Runs : \A n \in StepNames :
          steps[r][n] # NoRecord
            => steps'[r][n] = steps[r][n] /\ invoked'[r][n] = invoked[r][n]]_vars

\* A second terminal invocation whose operation did not run and that was
\* answered from the StepRecord of the first.
C1_Witness ==
  \E r \in Runs :
    /\ lastCall[r].tool = "terminal"
    /\ ~lastCall[r].executed
    /\ invoked[r]["terminal"] = 1
    /\ lastCall[r].ret = steps[r]["terminal"]

C3_OneShotSummary ==
  [][\A r \in Runs : Truthy(summary[r]) => summary'[r] = summary[r]]_vars

\* The detector has set the summary from a text that holds the marker.
C3_Witness ==
  \E r \in Runs :
    /\ Truthy(summary[r])
    /\ Includes(summary[r].s, Marker)
    /\ pc[r] = "done"
    /\ iter[r] > 1

\* C4 (bounded loop): the turn count never exceeds 15, and a loop that ended
\* without a summary ran exactly 15 turns.
C4_BoundedLoop ==
  \A r \in Runs :
    /\ iter[r] <= 15
    /\ (Stopped(r) /\ ~Truthy(summary[r])) => iter[r] = 15

\* A run without a marker whose agent called tools, stopped at the cap.
C4_Witness ==
  \E r \in Runs :
    /\ pc[r] = "stopped"
    /\ ~Truthy(summary[r])
    /\ iter[r] = 15
    /\ calls[r] = MaxCalls

\* The terminal state is valid: a summary and at least one file.
Valid(r) == Truthy(summary[r]) /\ Keys(files[r].m) # {}

\* C5 (finalizer validity): when the run has stored its message, it is the
\* one message of the run; it is a RESULT exactly when the terminal state has
\* a summary and a non-empty files mapping, and otherwise it is the generic
\* ERROR message, with the fixed text and no fragment.
C5_FinalizerValidity ==
  \A r \in Runs :
    (pc[r] = "done" /\ TypeOf(steps[r]["save-result"]) = "string")
      => /\ Len(messages[r]) = 1
         /\ (messages[r][1].type = "RESULT") = Valid(r)
         /\ ~Valid(r) =>
              /\ messages[r][1].type = "ERROR"
              /\ messages[r][1].content.s = <<"Something went wrong. Please try again.">>
              /\ ~messages[r][1].fragment.present

\* A summary without any file: the ERROR message is stored.
C5_Witness ==
  \E r \in Runs :
    /\ pc[r] = "done"
    /\ Truthy(summary[r])
    /\ Keys(files[r].m) = {}
    /\ Len(messages[r]) = 1
    /\ messages[r][1].type = "ERROR"

\* C6 (error-value contract of the terminal tool): when the command, or the
\* resolution of the sandbox, fails, the handler returns a string that holds
\* the error and the stdout and stderr buffered until then.
C6_TerminalErrorValue ==
  \A r \in Runs :
    (lastCall[r].tool = "terminal" /\ lastCall[r].errored)
      => /\ TypeOf(lastCall[r].ret) = "string"
         /\ Contains(lastCall[r].ret.s, <<lastCall[r].error>>)
         /\ Contains(lastCall[r].ret.s, <<" \nstdout: ">> \o lastCall[r].stdout)
         /\ Contains(lastCall[r].ret.s, <<" \nstderr: ">> \o lastCall[r].stderr)

\* A command that threw after it had written to both streams.
C6_Witness ==
  \E r \in Runs :
    /\ lastCall[r].tool = "terminal"
    /\ lastCall[r].error = "CommandExitError"
    /\ lastCall[r].stdout = <<"out">>
    /\ lastCall[r].stderr = <<"err">>
    /\ TypeOf(lastCall[r].ret) = "string"

IsErrorString(v) == TypeOf(v) = "string" /\ Len(v.s) > 0 /\ v.s[1] = "Error: "

\* The serialized list holds exactly one {path, content} entry per path of
\* the request, in request order.
OneEntryPerPath(v, paths) ==
  /\ TypeOf(v) = "string"
  /\ Len(v.s) = 2 + 5 * Len(paths)
  /\ v.s[1] = "[" /\ v.s[Len(v.s)] = "]"
  /\ \A i \in 1..Len(paths) :
       /\ v.s[5 * i - 3] = "{path:" /\ v.s[5 * i - 2] = paths[i]
       /\ v.s[5 * i - 1] = "content:" /\ v.s[5 * i] # Absent
       /\ v.s[5 * i + 1] = "}"

\* C7 (read-batch atomicity): a readFiles invocation returns either a single
\* error string, and that whenever a read failed, or one serialized list with
\* exactly one entry per requested path, in request order.
C7_ReadBatchAtomicity ==
  \A r \in Runs :
    lastCall[r].tool = "readFiles"
      => /\ lastCall[r].errored => IsErrorString(lastCall[r].ret)
         /\ \/ IsErrorString(lastCall[r].ret)
            \/ OneEntryPerPath(lastCall[r].ret, lastCall[r].paths)

\* The part of C7 that the operation itself decides: what an invocation
\* whose reads were performed returns.
C7_ExecutedReads ==
  \A r \in Runs :
    (lastCall[r].tool = "readFiles" /\ lastCall[r].executed)
      => IF lastCall[r].errored
         THEN IsErrorString(lastCall[r].ret)
         ELSE /\ OneEntryPerPath(lastCall[r].ret, lastCall[r].paths)
              /\ \A i \in 1..Len(lastCall[r].paths) :
                   lastCall[r].ret.s[5 * i] = sbFiles[r][lastCall[r].paths[i]]

\* The content the batch leaves for path p: that of its last entry for p.
RECURSIVE LastWritten(_, _, _)
LastWritten(batch, p, n) ==
  IF n = 0 THEN Absent
  ELSE IF batch[n].path = p THEN batch[n].content
  ELSE LastWritten(batch, p, n - 1)

\* files' is files overlaid with the batch.
Overlaid(before, after, batch) ==
  /\ TypeOf(after) = "object"
  /\ \A p \in Paths :
       after.m[p] =
         IF LastWritten(batch, p, Len(batch)) # Absent
         THEN LastWritten(batch, p, Len(batch))
         ELSE before.m[p]

\* C8 (monotonic files): no step removes a key from the files mapping, and a
\* createOrUpdateFiles invocation that ends without an error leaves every
\* path of its batch with the content the batch wrote (the last entry of a
\* path winning) and every other path with its previous content.
C8_MonotonicFiles ==
  [][\A r \in Runs :
       /\ Keys(files[r].m) \subseteq Keys(files'[r].m)
       /\ (CallOf(r, "createOrUpdateFiles")
             /\ TypeOf(steps'[r]["createOrUpdateFiles"]) = "object")
            => Overlaid(files[r], files'[r], lastCall'[r].batch)]_vars

\* The part of C8 that the operation itself decides.
C8_ExecutedBatches ==
  [][\A r \in Runs :
       /\ Keys(files[r].m) \subseteq Keys(files'[r].m)
       /\ (CallOf(r, "createOrUpdateFiles")
             /\ lastCall'[r].executed /\ ~lastCall'[r].errored)
            => Overlaid(files[r], files'[r], lastCall'[r].batch)]_vars

\* C9 (router stop on completion): while the summary is set the run is never
\* inside a turn, no turn is counted and no tool is invoked; the loop leaves
\* RUNNING at the router's first decision after the detector set the summary.
C9_StopOnCompletion ==
  /\ [](\A r \in Runs : Truthy(summary[r]) => pc[r] \in {"route", "stopped", "save", "done"})
  /\ [][\A r \in Runs :
          Truthy(summary[r])
            => /\ iter'[r] = iter[r]
               /\ calls'[r] = calls[r]
               /\ lastCall'[r] = lastCall[r]
               /\ (pc[r] = "route" /\ pc'[r] # pc[r]) => pc'[r] = "stopped"]_vars
  /\ [][\A r \in Runs :
          (~Truthy(summary[r]) /\ Truthy(summary'[r]))
            => pc[r] = "turn" /\ pc'[r] = "route" /\ iter'[r] = iter[r] + 1]_vars

\* The loop stopped by a summary before the cap, after tool invocations.
C9_Witness ==
  \E r \in Runs :
    /\ pc[r] = "stopped"
    /\ Truthy(summary[r])
    /\ iter[r] < 15
    /\ calls[r] > 0

\* C10 (crash-safe replay): across a crash between two steps and the restart
\* of the function, no operation is invoked a second time, so at most one
\* sandbox is created and one message stored and the sandbox's files are not
\* written again; a StepRecord never changes, and what the restarted function
\* holds (sandboxId, sandboxUrl, the files mapping) is what was recorded.
C10_CrashSafeReplay ==
  /\ [](\A r \in Runs :
          /\ \A n \in StepNames : invoked[r][n] <= 1
          /\ sbExists[r] <= 1
          /\ Len(messages[r]) <= 1
          /\ sandboxId[r] # Undefined => sandboxId[r] = steps[r]["get-sandbox-id"]
          /\ sandboxUrl[r] # Undefined => sandboxUrl[r] = steps[r]["get-sandbox-url"]
          /\ files[r] # Undefined => files[r] = steps[r]["createOrUpdateFiles"])
  /\ [][\A r \in Runs :
          /\ \A n \in StepNames :
               steps[r][n] # NoRecord
                 => steps'[r][n] = steps[r][n] /\ invoked'[r][n] = invoked[r][n]
          /\ steps[r]["createOrUpdateFiles"] # NoRecord => sbFiles'[r] = sbFiles[r]
          /\ steps[r]["save-result"] # NoRecord => messages'[r] = messages[r]]_vars

\* A restarted run whose createOrUpdateFiles invocation was answered from
\* the StepRecord written before the crash and rebuilt the files mapping.
C10_Witness ==
  \E r \in Runs :
    /\ crashes[r] = 1
    /\ lastCall[r].tool = "createOrUpdateFiles"
    /\ ~lastCall[r].executed
    /\ Keys(files[r].m) # {}
    /\ calls[r] = 2

\* C11 (a failed batch is reported as an error string): a createOrUpdateFiles
\* invocation one of whose writes threw returns an error string to the agent.
C11_WriteFailureReported ==
  \A r \in Runs :
    (lastCall[r].tool = "createOrUpdateFiles" /\ lastCall[r].errored)
      => IsErrorString(lastCall[r].ret)

\* What the code does instead: the operation's error string is recorded for
\* the step, and the handler returns undefined.
C11_ErrorRecordedNotReturned ==
  \A r \in Runs :
    (lastCall[r].tool = "createOrUpdateFiles" /\ lastCall[r].errored)
      => /\ IsErrorString(steps[r]["createOrUpdateFiles"])
         /\ lastCall[r].ret = Undefined

\* C12 (content of the RESULT artifact): the stored RESULT message holds the
\* terminal summary as its content and the complete terminal files mapping
\* and the result of get-sandbox-url in its fragment; that result, when the
\* step resolved, is the URL of port 3000 of the run's own sandbox; the
\* return value carries the same url, files and summary.
C12_ResultArtifact ==
  \A r \in Runs :
    (pc[r] = "done" /\ Len(messages[r]) = 1 /\ messages[r][1].type = "RESULT")
      => /\ ~isError[r]
         /\ messages[r][1].content = summary[r]
         /\ messages[r][1].fragment.present
         /\ messages[r][1].fragment.files = files[r]
         /\ Keys(messages[r][1].fragment.files.m) # {}
         /\ messages[r][1].fragment.sandboxUrl = steps[r]["get-sandbox-url"]
         /\ TypeOf(steps[r]["get-sandbox-url"]) = "string"
              => steps[r]["get-sandbox-url"] = UrlOf(steps[r]["get-sandbox-id"])
         /\ returned[r] =
              [url |-> messages[r][1].fragment.sandboxUrl,
               files |-> messages[r][1].fragment.files,
               summary |-> messages[r][1].content]

\* A RESULT message stored with two files and the resolved URL.
C12_Witness ==
  \E r \in Runs :
    /\ pc[r] = "done"
    /\ Len(messages[r]) = 1
    /\ messages[r][1].type = "RESULT"
    /\ Cardinality(Keys(messages[r][1].fragment.files.m)) = 2
    /\ TypeOf(messages[r][1].fragment.sandboxUrl) = "string"
    /\ returned[r].summary = summary[r]

\* The step that follows the named step in the function.
PcAfter(n) ==
  CASE n = "get-sandbox-id" -> "route"
    [] n = "get-sandbox-url" -> "save"
    [] n = "save-result" -> "done"
    [] OTHER -> "turn"

\* C13 (step failures are values): an operation that failed leaves a failure
\* StepRecord, the caller of step.run holds that failure as the step's result
\* and the function goes on to its next step.
C13_StepFailuresAreValues ==
  /\ [](\A r \in Runs :
          /\ \A n \in StepNames : invoked[r][n] = 1 => steps[r][n] # NoRecord
          /\ (invoked[r]["get-sandbox-id"] = 1 /\ sbExists[r] = 0)
               => steps[r]["get-sandbox-id"] = Failure("SandboxError")
          /\ (invoked[r]["save-result"] = 1 /\ messages[r] = <<>>)
               => steps[r]["save-result"] = Failure("DbError")
          /\ sandboxId[r] # Undefined => sandboxId[r] = steps[r]["get-sandbox-id"]
          /\ pc[r] \in {"save", "done"} => sandboxUrl[r] = steps[r]["get-sandbox-url"])
  /\ [][\A r \in Runs : \A n \in StepNames :
          (steps[r][n] = NoRecord /\ TypeOf(steps'[r][n]) = "failure")
            => pc'[r] = PcAfter(n)]_vars

\* A run that went on to its end after get-sandbox-url and save-result failed.
C13_Witness ==
  \E r \in Runs :
    /\ pc[r] = "done"
    /\ TypeOf(steps[r]["get-sandbox-url"]) = "failure"
    /\ sandboxUrl[r] = steps[r]["get-sandbox-url"]
    /\ TypeOf(steps[r]["save-result"]) = "failure"

\* Everything run r owns: its position, StepRecords, sandbox and AgentState.
OwnState(r) ==
  <<pc[r], steps[r], invoked[r], sandboxId[r], files[r], summary[r], iter[r],
    lastCall[r], sbExists[r], sbFiles[r], isError[r], sandboxUrl[r],
    messages[r], returned[r], crashes[r], calls[r]>>

C15_AgentStateFrame ==
  [][\A r \in Runs :
       /\ (CallOf(r, "terminal") \/ CallOf(r, "readFiles"))
            => (files'[r] = files[r] /\ summary'[r] = summary[r])
       /\ CallOf(r, "createOrUpdateFiles") => summary'[r] = summary[r]
       /\ (pc[r] = "turn" /\ pc'[r] = "route") => files'[r] = files[r]
       /\ (pc[r] \in {"route", "stopped", "save"} /\ pc'[r] # pc[r])
            => (files'[r] = files[r] /\ summary'[r] = summary[r])]_vars

\* A readFiles invocation whose reads were performed, in a run whose files
\* mapping already holds a written file.
C15_Witness ==
  \E r \in Runs :
    /\ lastCall[r].tool = "readFiles"
    /\ lastCall[r].executed
    /\ ~lastCall[r].errored
    /\ Keys(files[r].m) = {"app/page.tsx"}

\* C16 (termination without completion): every started run reaches its end;
\* a run that ends without a summary left the loop at the cap of 15 turns,
\* was validated as failed and stored nothing but the generic ERROR message;
\* once the loop has stopped no further turn is run.
C16_TerminatesWithoutCompletion ==
  /\ \A r \in Runs : (pc[r] = "start") ~> (pc[r] = "done")
  /\ [](\A r \in Runs :
          (pc[r] = "done" /\ ~Truthy(summary[r]))
            => /\ iter[r] = 15
               /\ isError[r]
               /\ messages[r] \in {<<>>, <<ErrorMessage>>}
               /\ TypeOf(steps[r]["save-result"]) = "string"
                    => messages[r] = <<ErrorMessage>>)
  /\ [][\A r \in Runs :
          Stopped(r) => (Stopped(r)' /\ iter'[r] = iter[r])]_vars

\* A run that ended at the cap without a summary, after its agent had called
\* tools, and stored the ERROR message.
C16_Witness ==
  \E r \in Runs :
    /\ pc[r] = "done"
    /\ ~Truthy(summary[r])
    /\ iter[r] = 15
    /\ calls[r] > 0
    /\ messages[r] = <<ErrorMessage>>

\* C17 (the URL step belongs to the success path only): once the run is
\* past step 6, the operation of get-sandbox-url has been invoked exactly
\* when the terminal state was validated as successful.
C17_UrlOnSuccessOnly ==
  \A r \in Runs :
    pc[r] \in {"save", "done"}
      => (invoked[r]["get-sandbox-url"] = 1) = ~isError[r]

\* What the code does instead: step 6 runs in every run, whatever isError is.
C17_UrlAlwaysResolved ==
  \A r \in Runs :
    pc[r] \in {"save", "done"} => invoked[r]["get-sandbox-url"] = 1

\* C18 (a persistence failure after completion does not end the run): when
\* message.create failed in a run whose summary is set, the function has
\* still returned, and its return value carries the url, the files and the
\* summary of the run although no message is stored.
C18_PersistenceFailureReturns ==
  \A r \in Runs :
    (TypeOf(steps[r]["save-result"]) = "failure" /\ Truthy(summary[r]))
      => /\ pc[r] = "done"
         /\ messages[r] = <<>>
         /\ returned[r] =
              [url |-> sandboxUrl[r], files |-> files[r], summary |-> summary[r]]
         /\ Truthy(returned[r].summary)

\* A run with a summary and a file whose message.create failed.
C18_Witness ==
  \E r \in Runs :
    /\ TypeOf(steps[r]["save-result"]) = "failure"
    /\ Truthy(summary[r])
    /\ Keys(files[r].m) # {}
    /\ ~isError[r]
    /\ pc[r] = "done"

\* C19 (schema validation precedes dispatch): a malformed invocation is
\* never handed to a handler; it is answered with a schema-violation error,
\* and the step that answers it invokes no operation and changes neither the
\* StepRecords, nor the sandbox, nor the AgentState.
C19_ValidationBeforeDispatch ==
  /\ [](\A r \in Runs :
          lastCall[r].malformed
            => /\ lastCall[r].tool = "rejected"
               /\ ~lastCall[r].executed
               /\ IsErrorString(lastCall[r].ret)
               /\ Includes(lastCall[r].ret.s, "SchemaViolation"))
  /\ [][\A r \in Runs :
          (calls'[r] = calls[r] + 1 /\ lastCall'[r].malformed)
            => /\ steps'[r] = steps[r]
               /\ invoked'[r] = invoked[r]
               /\ sbFiles'[r] = sbFiles[r]
               /\ sbExists'[r] = sbExists[r]
               /\ files'[r] = files[r]
               /\ summary'[r] = summary[r]]_vars

\* A malformed terminal invocation rejected in a run that has made no valid
\* terminal invocation: the step "terminal" has no record.
C19_Witness ==
  \E r \in Runs :
    /\ lastCall[r].tool = "rejected"
    /\ lastCall[r].ret = Str(<<"Error: ", "SchemaViolation", "terminal">>)
    /\ steps[r]["terminal"] = NoRecord
    /\ TypeOf(sandboxId[r]) = "string"

\* C20 (each tool call gets its own result): every invocation of a tool that
\* the schema accepted performs its operation against the sandbox, and the
\* value a terminal or readFiles invocation returns is the outcome of that
\* operation.
C20_OwnResultPerCall ==
  \A r \in Runs :
    lastCall[r].tool \in {"terminal", "createOrUpdateFiles", "readFiles"}
      => lastCall[r].executed

\* What the code does instead: of the invocations of one tool in a run only
\* the first performs its operation; the later ones are answered from its
\* StepRecord.
C20_FirstCallOnly ==
  /\ [](\A r \in Runs : \A n \in {"terminal", "createOrUpdateFiles", "readFiles"} :
          invoked[r][n] <= 1)
  /\ [][\A r \in Runs : \A n \in {"terminal", "createOrUpdateFiles", "readFiles"} :
          CallOf(r, n) => lastCall'[r].executed = (steps[r][n] = NoRecord)]_vars

\* C21 (exactly one artifact, only after the loop): a run never holds more
\* than one message and holds exactly one once it has ended with its
\* message.create succeeded; a message is stored only by the step that ends
\* the function, after the loop has stopped; and the steps come in the order
\* get-sandbox-id, agent turns, get-sandbox-url, save-result.
C21_OneArtifactAfterLoop ==
  /\ [](\A r \in Runs :
          /\ Len(messages[r]) <= 1
          /\ messages[r] # <<>> => pc[r] = "done"
          /\ (pc[r] = "done" /\ TypeOf(steps[r]["save-result"]) = "string")
               => Len(messages[r]) = 1
          /\ steps[r]["save-result"] # NoRecord
               => steps[r]["get-sandbox-url"] # NoRecord
          /\ steps[r]["get-sandbox-url"] # NoRecord
               => (Stopped(r) /\ steps[r]["get-sandbox-id"] # NoRecord)
          /\ (iter[r] > 0 \/ calls[r] > 0 \/ pc[r] = "turn")
               => steps[r]["get-sandbox-id"] # NoRecord)
  /\ [][\A r \in Runs :
          /\ messages'[r] # messages[r] => (pc[r] = "save" /\ pc'[r] = "done")
          /\ (Stopped(r) /\ steps[r]["get-sandbox-url"] # NoRecord)
               => (iter'[r] = iter[r] /\ calls'[r] = calls[r])]_vars

\* A run that made tool invocations over two turns, stopped, resolved its
\* URL and ended with its one message stored.
C21_Witness ==
  \E r \in Runs :
    /\ pc[r] = "done"
    /\ Len(messages[r]) = 1
    /\ iter[r] > 1
    /\ calls[r] > 0
    /\ TypeOf(steps[r]["get-sandbox-id"]) = "string"
    /\ TypeOf(steps[r]["get-sandbox-url"]) = "string"
    /\ TypeOf(steps[r]["save-result"]) = "string"

====
